---- MODULE Spec2Model ----
(***************************************************************************)
(* Model of src/uniswap_arb.py and src/uniswap_benchmark.py: the           *)
(* constant-product pool (UniswapPool), the arbitrage objective            *)
(* (simulate_arb), the search-bound derivation (upper_bound) and the       *)
(* driver optimal_profit.                                                  *)
(*                                                                         *)
(* The program computes with Python floats (IEEE-754 binary64, round to    *)
(* nearest, ties to even).  The model keeps that arithmetic and shrinks    *)
(* only the significand: a number is a pair <<m, e>> standing for m * 2^e  *)
(* with a Prec-bit significand, and every +, -, *, / is the exact result   *)
(* rounded to nearest-even, as in the program.  The exponent is unbounded  *)
(* (binary64 overflow and underflow are outside the magnitudes modelled).  *)
(***************************************************************************)
EXTENDS Integers, Sequences, FiniteSets, TLC

\* Significand width of the modelled floats (binary64 has 53).
Prec == 14

\* Longest sequence of calls made on one pool.
MaxCalls == 3

\* Most objective evaluations the optimizer makes in one search.
MaxEvals == 2

-----------------------------------------------------------------------------
(* Floating-point arithmetic: Python's float operators.                    *)

RECURSIVE Pow2(_)
Pow2(k) == IF k <= 0 THEN 1 ELSE 2 * Pow2(k - 1)

RECURSIVE BitLen(_)
BitLen(n) == IF n = 0 THEN 0 ELSE 1 + BitLen(n \div 2)

IAbs(n) == IF n < 0 THEN -n ELSE n

Zero == <<0, 0>>

\* Round, once the shift sh > 0 is known: a = q * 2^sh + r
RoundShift(a, sg, e, sticky, sh, q, r, half) ==
  IF r > half \/ (r = half /\ (sticky \/ q % 2 = 1))
  THEN IF q + 1 = Pow2(Prec) THEN <<sg * Pow2(Prec - 1), e + sh + 1>>
       ELSE <<sg * (q + 1), e + sh>>
  ELSE <<sg * q, e + sh>>

\* Round, once the magnitude a > 0 and its bit length L are known
RoundLen(a, sg, e, sticky, L) ==
  IF L <= Prec THEN <<sg * a * Pow2(Prec - L), e - (Prec - L)>>
  ELSE RoundShift(a, sg, e, sticky, L - Prec, a \div Pow2(L - Prec),
                  a % Pow2(L - Prec), Pow2(L - Prec - 1))

\* The float nearest to (n * 2^e) [plus a non-zero tail below n's last bit
\* when sticky]: round to nearest, ties to even.
Round(n, e, sticky) ==
  IF n = 0 THEN Zero
  ELSE RoundLen(IAbs(n), IF n < 0 THEN -1 ELSE 1, e, sticky, BitLen(IAbs(n)))

\* float(n)
FromInt(n) == Round(n, 0, FALSE)

\* x * 2^k (exact)
Scale2(x, k) == IF x[1] = 0 THEN Zero ELSE <<x[1], x[2] + k>>

FNeg(x) == <<-x[1], x[2]>>

FAbs(x) == <<IAbs(x[1]), x[2]>>

\* x + y
\* hi + lo for non-zero hi, lo with hi's exponent the larger: lo is below half
\* a unit in hi's last place when the exponents are Prec + 2 or more apart
FAddOrdered(hi, lo) ==
  IF hi[2] - lo[2] >= Prec + 2 THEN hi
  ELSE Round(hi[1] * Pow2(hi[2] - lo[2]) + lo[1], lo[2], FALSE)

FAdd(x, y) ==
  IF x[1] = 0 THEN y
  ELSE IF y[1] = 0 THEN x
  ELSE IF x[2] >= y[2] THEN FAddOrdered(x, y)
  ELSE FAddOrdered(y, x)

\* x - y
FSub(x, y) == FAdd(x, FNeg(y))

\* x * y
FMul(x, y) == Round(x[1] * y[1], x[2] + y[2], FALSE)

\* x / y for y # 0 (Python raises ZeroDivisionError for y = 0: see callers).
\* The quotient is taken to Prec + 1 bits or more, the remainder is the tail.
FDivScaled(sg, nn, dd, e) == Round(sg * (nn \div dd), e, nn % dd # 0)

FDiv(x, y) ==
  IF x[1] = 0 THEN Zero
  ELSE FDivScaled(IF (x[1] < 0) = (y[1] < 0) THEN 1 ELSE -1,
                  IAbs(x[1]) * Pow2(Prec + 1), IAbs(y[1]), x[2] - y[2] - (Prec + 1))

\* The decimal literal n/d (n and d exact as floats: d = 1000 or 100000)
FromRat(n, d) == FDiv(FromInt(n), FromInt(d))

\* comparisons (the sign of a rounded difference is the sign of the exact one)
FLt(x, y) == FSub(x, y)[1] < 0
FLe(x, y) == FSub(x, y)[1] <= 0
FGt(x, y) == FLt(y, x)
FGe(x, y) == FLe(y, x)
FPos(x) == x[1] > 0

One == FromInt(1)

-----------------------------------------------------------------------------
(* class UniswapPool                                                       *)

\* What a call does: the exception it raises ("none" when it returns), the
\* value it returns, and the object afterwards.
Outcome(exc, ret, self) == [exc |-> exc, ret |-> ret, self |-> self]

NoPool == [X |-> Zero, Y |-> Zero, K |-> Zero, swap_fee |-> Zero]

\* UniswapPool.__init__(X, Y)
UniswapPool(X, Y) ==
  IF FLe(X, Zero) \/ FLe(Y, Zero)
  THEN Outcome("InvalidReserves", Zero, NoPool)
  ELSE Outcome("none", Zero,
               [X |-> X, Y |-> Y, K |-> FMul(X, Y), swap_fee |-> FromRat(3, 1000)])

\* output, lines 98-104: new_amt and output_amount, given _di
output_amount(self, input_token, _di) ==
  IF input_token = "DAI"
  THEN IF FAdd(self.X, _di) = Zero THEN Outcome("ZeroDivisionError", Zero, self)
       ELSE Outcome("none", FSub(self.Y, FDiv(self.K, FAdd(self.X, _di))), self)
  ELSE IF FAdd(self.Y, _di) = Zero THEN Outcome("ZeroDivisionError", Zero, self)
       ELSE Outcome("none", FSub(self.X, FDiv(self.K, FAdd(self.Y, _di))), self)

\* UniswapPool.output(input_token, di); input_token is "DAI" or "ETH".
\* Lines 96-97: fees = swap_fee * di, _di = di - fees.
output(self, input_token, di) ==
  output_amount(self, input_token, FSub(di, FMul(self.swap_fee, di)))

\* the pool with reserves X, Y and K recomputed (self.K = self.X * self.Y)
with_reserves(self, X, Y) == [self EXCEPT !.X = X, !.Y = Y, !.K = FMul(X, Y)]

\* swap, lines 66-72 and 75-81, given what output() did
swap_update(self, input_token, input_amount, o) ==
  IF o.exc # "none" THEN o
  ELSE IF input_token = "DAI"
  THEN Outcome("none", o.ret,
               with_reserves(self, FAdd(self.X, input_amount), FSub(self.Y, o.ret)))
  ELSE Outcome("none", o.ret,
               with_reserves(self, FSub(self.X, o.ret), FAdd(self.Y, input_amount)))

\* UniswapPool.swap(input_token, input_amount)
swap(self, input_token, input_amount) ==
  IF FLe(input_amount, Zero) THEN Outcome("InvalidAmount", Zero, self)
  ELSE IF input_token = "DAI" \/ input_token = "ETH"
  THEN swap_update(self, input_token, input_amount,
                   output(self, input_token, input_amount))
  ELSE Outcome("InvalidToken", Zero, self)

\* UniswapPool.add_liquidity(X, Y)
add_liquidity(self, X, Y) ==
  IF Y = Zero \/ self.Y = Zero THEN Outcome("ZeroDivisionError", Zero, self)
  ELSE IF FDiv(X, Y) # FDiv(self.X, self.Y) THEN Outcome("InvalidRatio", Zero, self)
  ELSE IF FLe(X, Zero) \/ FLe(Y, Zero) THEN Outcome("InvalidAmounts", Zero, self)
  ELSE Outcome("none", Zero, with_reserves(self, FAdd(self.X, X), FAdd(self.Y, Y)))

\* UniswapPool.remove_liquidity(X, Y)
remove_liquidity(self, X, Y) ==
  IF Y = Zero \/ self.Y = Zero THEN Outcome("ZeroDivisionError", Zero, self)
  ELSE IF FDiv(X, Y) # FDiv(self.X, self.Y) THEN Outcome("InvalidRatio", Zero, self)
  ELSE IF FLe(X, Zero) \/ FLe(Y, Zero) THEN Outcome("InvalidAmounts", Zero, self)
  ELSE Outcome("none", Zero, with_reserves(self, FSub(self.X, X), FSub(self.Y, Y)))

-----------------------------------------------------------------------------
(* simulate_arb, upper_bound and optimal_profit                            *)

\* What one call of the objective does: the exception it raises ("none" when
\* it returns), the value it returns, and the pools the two legs went through
\* (first, second).
Objective(exc, ret, route) == [exc |-> exc, ret |-> ret, route |-> route]

\* sign * (leg2 - dy), once both swaps of line 132 (or 134) have run
arb_value(leg1, leg2, route, dy, sign) ==
  IF leg1.exc # "none" THEN Objective(leg1.exc, Zero, route)
  ELSE IF leg2.exc # "none" THEN Objective(leg2.exc, Zero, route)
  ELSE Objective("none", FMul(sign, FSub(leg2.ret, dy)), route)

\* second.swap('DAI', first.swap('ETH', dy)): the inner call runs first
arb_second(leg1, second, route, dy, sign) ==
  arb_value(leg1, swap(second, "DAI", leg1.ret), route, dy, sign)

arb_legs(first, second, route, dy, sign) ==
  arb_second(swap(first, "ETH", dy), second, route, dy, sign)

\* arb_route with the comparison of the prices dropped: pool A always first
arb_route_a_first(pool_a, pool_b, a_price, b_price, dy, sign) ==
  IF a_price # b_price THEN arb_legs(pool_a, pool_b, <<"A", "B">>, dy, sign)
  ELSE Objective("NoArbitrage", Zero, <<"", "">>)

\* lines 130-136, on the two pools built at lines 128-129
arb_route(pool_a, pool_b, a_price, b_price, dy, sign) ==
  IF FGt(b_price, a_price) THEN arb_legs(pool_a, pool_b, <<"A", "B">>, dy, sign)
  ELSE IF FGt(a_price, b_price) THEN arb_legs(pool_b, pool_a, <<"B", "A">>, dy, sign)
  ELSE Objective("NoArbitrage", Zero, <<"", "">>)

\* simulate_arb(dy, ax, ay, bx, by, sign)
\* lines 128-130, given what the two constructors did
arb_pools(a, b, dy, sign) ==
  IF a.exc # "none" THEN Objective(a.exc, Zero, <<"", "">>)
  ELSE IF b.exc # "none" THEN Objective(b.exc, Zero, <<"", "">>)
  ELSE arb_route(a.self, b.self, FDiv(a.self.Y, a.self.X), FDiv(b.self.Y, b.self.X),
                 dy, sign)

\* simulate_arb(dy, ax, ay, bx, by, sign)
simulate_arb(dy, ax, ay, bx, by, sign) ==
  arb_pools(UniswapPool(ax, ay), UniswapPool(bx, by), dy, sign)

\* upper_bound(row) of uniswap_benchmark.py; row = <<ax, ay, bx, by>>
\* weighted_bound without the abs()
weighted_bound_signed(a, b, total, r0, r1, r2, r3) ==
  FAdd(FMul(FDiv(b, total), FSub(r0, r1)), FMul(FDiv(a, total), FSub(r2, r3)))

\* b/total * abs(r0 - r1) + a/total * abs(r2 - r3)
weighted_bound(a, b, total, r0, r1, r2, r3) ==
  FAdd(FMul(FDiv(b, total), FAbs(FSub(r0, r1))),
       FMul(FDiv(a, total), FAbs(FSub(r2, r3))))

\* lines 16-19, given a, b and total (a zero total raises ZeroDivisionError)
bound_of(a, b, total, row) ==
  IF total = Zero THEN [exc |-> "ZeroDivisionError", ret |-> Zero]
  ELSE [exc |-> "none",
        ret |-> weighted_bound(a, b, total, row[1], row[2], row[3], row[4])]

upper_bound(row) ==
  bound_of(FAdd(row[1], row[2]), FAdd(row[3], row[4]),
           FAdd(FAdd(row[1], row[2]), FAdd(row[3], row[4])), row)

\* reserves_invalid with < for <=: a zero reserve passes
reserves_invalid_strict(ax, ay, bx, by) ==
  FLt(ax, Zero) \/ FLt(ay, Zero) \/ FLt(bx, Zero) \/ FLt(by, Zero)

\* optimal_profit, line 156
reserves_invalid(ax, ay, bx, by) ==
  FLe(ax, Zero) \/ FLe(ay, Zero) \/ FLe(bx, Zero) \/ FLe(by, Zero)

\* optimal_profit, line 158
prices_equal(ax, ay, bx, by) == FDiv(ay, ax) = FDiv(by, bx)

\* optimal_profit, lines 160-163: lower, upper and midpoint
interval(lower, upper) ==
  [lower |-> lower, upper |-> upper, midpoint |-> FDiv(upper, FromInt(2))]

search_interval(ax, ay, bx, by) ==
  interval(FromRat(1, 100000),
           weighted_bound(FAdd(ax, ay), FAdd(bx, by),
                          FAdd(FAdd(ax, ay), FAdd(bx, by)), ax, ay, bx, by))

\* direction with the two labels exchanged
direction_reversed(ax, ay, bx, by) ==
  IF FGt(FDiv(by, bx), FDiv(ay, ax)) THEN [b |-> "B", s |-> "A"]
  ELSE [b |-> "A", s |-> "B"]

\* optimal_profit, lines 164-167: the pool to buy in (b) and to sell in (s)
direction(ax, ay, bx, by) ==
  IF FGt(FDiv(by, bx), FDiv(ay, ax)) THEN [b |-> "A", s |-> "B"]
  ELSE [b |-> "B", s |-> "A"]

-----------------------------------------------------------------------------
(* State                                                                    *)

VARIABLES
  pool,      \* the UniswapPool object (NoPool before construction)
  life,      \* "new" | "live" | "failed": not yet built, built, __init__ raised
  ncalls,    \* calls made on the pool so far
  last,      \* the last call: method, arguments, exception, result, pool before
  prev       \* the call before it

poolvars == <<pool, life, ncalls, last, prev>>

VARIABLES
  args,      \* optimal_profit's arguments ax, ay, bx, by
  pc,        \* where optimal_profit is: "L156", "L158", "L160", "minimize",
             \* "L169", "returned", "raised"
  exc,       \* the exception optimal_profit ended with ("none" otherwise)
  search,    \* lower, upper, midpoint
  labels,    \* b, s
  evals,     \* objective evaluations made by the optimizer so far
  x,         \* the last trial point
  fun,       \* the last objective evaluation
  res,       \* the optimizer's result: res.x and res.fun (best point so far)
  ret,       \* optimal_profit's return value
  bound      \* what uniswap_benchmark.upper_bound did on the row <<ax, ay, bx, by>>

arbvars == <<args, pc, exc, search, labels, evals, x, fun, res, ret, bound>>

vars == <<pool, life, ncalls, last, prev, args, pc, exc, search, labels, evals, x,
          fun, res, ret, bound>>

-----------------------------------------------------------------------------
(* One pool object and the calls a client makes on it.                     *)

Call(op, token, a1, a2, chained, pre, out) ==
  [op |-> op, token |-> token, a1 |-> a1, a2 |-> a2, chained |-> chained,
   pre |-> pre, exc |-> out.exc, ret |-> out.ret]

NoCall == Call("none", "", Zero, Zero, FALSE, NoPool, Outcome("none", Zero, NoPool))

\* Reserves a pool is built from (0.997, 1, 3, 1024, and two invalid ones).
InitReserves ==
  {FromInt(-1), Zero, FromRat(997, 1000), One, FromInt(3), FromInt(1024)}

\* Amounts a client swaps in.
SwapAmounts == {FromInt(-1), Zero, Scale2(One, -20), One, FromInt(3)}

Tokens == {"DAI", "ETH", "BTC"}

\* Amount pairs a client adds or removes: multiples of the current reserves
\* (the only pairs sure to pass the ratio test) and a few fixed pairs.
LiquidityPairs(self) ==
  {<<Scale2(self.X, k), Scale2(self.Y, k)>> : k \in {-1, 0, 1}}
    \cup {<<One, One>>, <<One, Zero>>, <<FNeg(self.X), FNeg(self.Y)>>}

Construct ==
  /\ life = "new"
  /\ \E X \in InitReserves, Y \in InitReserves :
       LET out == UniswapPool(X, Y)
       IN  /\ pool' = out.self
           /\ life' = IF out.exc = "none" THEN "live" ELSE "failed"
           /\ last' = Call("__init__", "", X, Y, FALSE, NoPool, out)
  /\ prev' = last
  /\ UNCHANGED ncalls
  /\ UNCHANGED arbvars

\* pool.swap(token, amount); the amount is a fresh one or, chained, the value
\* the previous swap returned.
CallSwap ==
  /\ life = "live"
  /\ ncalls < MaxCalls
  /\ \E token \in Tokens, chained \in BOOLEAN :
       \E amount \in IF chained
                     THEN IF last.op = "swap" /\ last.exc = "none"
                          THEN {last.ret} ELSE {}
                     ELSE SwapAmounts :
         LET out == swap(pool, token, amount)
         IN  /\ pool' = out.self
             /\ last' = Call("swap", token, amount, Zero, chained, pool, out)
  /\ prev' = last
  /\ ncalls' = ncalls + 1
  /\ UNCHANGED life
  /\ UNCHANGED arbvars

CallAddLiquidity ==
  /\ life = "live"
  /\ ncalls < MaxCalls
  /\ \E p \in LiquidityPairs(pool) :
       LET out == add_liquidity(pool, p[1], p[2])
       IN  /\ pool' = out.self
           /\ last' = Call("add_liquidity", "", p[1], p[2], FALSE, pool, out)
  /\ prev' = last
  /\ ncalls' = ncalls + 1
  /\ UNCHANGED life
  /\ UNCHANGED arbvars

CallRemoveLiquidity ==
  /\ life = "live"
  /\ ncalls < MaxCalls
  /\ \E p \in LiquidityPairs(pool) :
       LET out == remove_liquidity(pool, p[1], p[2])
       IN  /\ pool' = out.self
           /\ last' = Call("remove_liquidity", "", p[1], p[2], FALSE, pool, out)
  /\ prev' = last
  /\ ncalls' = ncalls + 1
  /\ UNCHANGED life
  /\ UNCHANGED arbvars

PoolNext == Construct \/ CallSwap \/ CallAddLiquidity \/ CallRemoveLiquidity

-----------------------------------------------------------------------------
(* One call of optimal_profit and the optimizer's calls of the objective.   *)

\* Reserves optimal_profit is called with: -1, 0, 2^-20, 2^-19, 1, 2, 3.
ArbReserves ==
  {FromInt(-1), Zero, Scale2(One, -20), Scale2(One, -19), One, FromInt(2), FromInt(3)}

NoObjective == Objective("none", Zero, <<"", "">>)

NoSearch == [lower |-> Zero, upper |-> Zero, midpoint |-> Zero]

NoBound == [exc |-> "not called", ret |-> Zero]

\* The points the optimizer may try: points of the closed interval it was
\* given (its ends, the start point, 1 and a quarter of the upper end).
TrialPoints(iv) ==
  {d \in {iv.lower, iv.midpoint, iv.upper, One, Scale2(iv.upper, -2)} :
     FLe(iv.lower, d) /\ FLe(d, iv.upper)}

\* lines 156-157
CheckReserves ==
  /\ pc = "L156"
  /\ IF reserves_invalid(args.ax, args.ay, args.bx, args.by)
     THEN pc' = "raised" /\ exc' = "InvalidReserves"
     ELSE pc' = "L158" /\ exc' = exc
  /\ UNCHANGED <<args, search, labels, evals, x, fun, res, ret, bound>>
  /\ UNCHANGED poolvars

\* lines 158-159
CheckPrices ==
  /\ pc = "L158"
  /\ IF args.ax = Zero \/ args.bx = Zero
     THEN pc' = "raised" /\ exc' = "ZeroDivisionError"
     ELSE IF prices_equal(args.ax, args.ay, args.bx, args.by)
     THEN pc' = "raised" /\ exc' = "NoArbitrage"
     ELSE pc' = "L160" /\ exc' = exc
  /\ UNCHANGED <<args, search, labels, evals, x, fun, res, ret, bound>>
  /\ UNCHANGED poolvars

\* lines 160-167
DeriveSearch ==
  /\ pc = "L160"
  /\ search' = search_interval(args.ax, args.ay, args.bx, args.by)
  /\ labels' = direction(args.ax, args.ay, args.bx, args.by)
  /\ pc' = "minimize"
  /\ UNCHANGED <<args, exc, evals, x, fun, res, ret, bound>>
  /\ UNCHANGED poolvars

\* line 168: the optimizer calls simulate_arb(d, ax, ay, bx, by, -1) at a point
\* of the interval; an exception raised by the objective ends optimal_profit.
Evaluate ==
  /\ pc = "minimize"
  /\ evals < MaxEvals
  /\ \E d \in TrialPoints(search) :
       LET f == simulate_arb(d, args.ax, args.ay, args.bx, args.by, FromInt(-1))
       IN  /\ x' = d
           /\ fun' = f
           /\ IF f.exc # "none"
              THEN pc' = "raised" /\ exc' = f.exc /\ res' = res
              ELSE /\ pc' = pc /\ exc' = exc
                   /\ res' = IF evals = 0 \/ FLt(f.ret, res.fun)
                             THEN [x |-> d, fun |-> f.ret] ELSE res
  /\ evals' = evals + 1
  /\ UNCHANGED <<args, search, labels, ret, bound>>
  /\ UNCHANGED poolvars

\* line 168: the optimizer returns its best point
OptimizerReturns ==
  /\ pc = "minimize"
  /\ evals > 0
  /\ pc' = "L169"
  /\ UNCHANGED <<args, exc, search, labels, evals, x, fun, res, ret, bound>>
  /\ UNCHANGED poolvars

\* lines 169-175
Report ==
  /\ pc = "L169"
  /\ ret' = IF FLe(FNeg(res.fun), Zero) THEN 0 ELSE 1
  /\ pc' = "returned"
  /\ UNCHANGED <<args, exc, search, labels, evals, x, fun, res, bound>>
  /\ UNCHANGED poolvars

\* uniswap_benchmark.upper_bound(row) on the same four reserves
CallUpperBound ==
  /\ pc = "L156"
  /\ bound = NoBound
  /\ bound' = upper_bound(<<args.ax, args.ay, args.bx, args.by>>)
  /\ UNCHANGED <<args, pc, exc, search, labels, evals, x, fun, res, ret>>
  /\ UNCHANGED poolvars

ArbNext ==
  \/ CheckReserves \/ CheckPrices \/ DeriveSearch \/ Evaluate \/ OptimizerReturns
  \/ Report \/ CallUpperBound

\* One UniswapPool, not yet built, and a client calling it.
PoolInit ==
  /\ pool = NoPool
  /\ life = "new"
  /\ ncalls = 0
  /\ last = NoCall
  /\ prev = NoCall
  /\ args = [ax |-> Zero, ay |-> Zero, bx |-> Zero, by |-> Zero]
  /\ pc = "idle"
  /\ exc = "none"
  /\ search = NoSearch
  /\ labels = [b |-> "", s |-> ""]
  /\ evals = 0
  /\ x = Zero
  /\ fun = NoObjective
  /\ res = [x |-> Zero, fun |-> Zero]
  /\ ret = -1
  /\ bound = NoBound

SpecPool == PoolInit /\ [][PoolNext]_vars

\* One call of optimal_profit(ax, ay, bx, by).
ArbInit ==
  /\ pool = NoPool
  /\ life = "idle"
  /\ ncalls = 0
  /\ last = NoCall
  /\ prev = NoCall
  /\ args \in [ax : ArbReserves, ay : ArbReserves, bx : ArbReserves, by : ArbReserves]
  /\ pc = "L156"
  /\ exc = "none"
  /\ search = NoSearch
  /\ labels = [b |-> "", s |-> ""]
  /\ evals = 0
  /\ x = Zero
  /\ fun = NoObjective
  /\ res = [x |-> Zero, fun |-> Zero]
  /\ ret = -1
  /\ bound = NoBound

SpecArb == ArbInit /\ [][ArbNext]_vars
-----------------------------------------------------------------------------
(* Properties                                                              *)

PosPool(p) == FPos(p.X) /\ FPos(p.Y)

AllPositive(a) == FPos(a.ax) /\ FPos(a.ay) /\ FPos(a.bx) /\ FPos(a.by)

\* the interval and the labels have been derived (lines 160-167 have run)
Derived == labels.b # ""

\* the last call was a swap of a positive amount of DAI or ETH
SwappedPositive(c) == c.op = "swap" /\ FPos(c.a1) /\ c.token \in {"DAI", "ETH"}

\* C1: a pool built from two positive reserves keeps both reserves strictly
\* positive through every sequence of swap, add_liquidity and
\* remove_liquidity calls, and a call that raises leaves X, Y and K as they
\* were (so a call that would empty a reserve must raise).
C1_ReservesStayPositive ==
  life = "live" => /\ PosPool(pool)
                   /\ last.exc # "none" => pool = last.pre

\* C2: a swap of a positive amount that returns, made on a pool with positive
\* reserves, leaves the stored invariant strictly larger: K' > K.
C2_SwapRaisesInvariant ==
  (SwappedPositive(last) /\ last.exc = "none" /\ PosPool(last.pre))
    => FGt(pool.K, last.pre.K)

\* The output the swap formula gives for d of token on reserves (X, Y) with fee
\* f, the fee taken off the input as the program does (d - f*d).
FormulaOutput(p, token, d) ==
  IF token = "DAI"
  THEN FSub(p.Y, FDiv(FMul(p.X, p.Y), FAdd(p.X, FSub(d, FMul(p.swap_fee, d)))))
  ELSE FSub(p.X, FDiv(FMul(p.X, p.Y), FAdd(p.Y, FSub(d, FMul(p.swap_fee, d)))))

\* C3: in every state reached by earlier calls, swap(token, d) with d > 0
\* returns output = Y - X*Y/(X + d*(1-f)) (mirrored for ETH) and leaves the pool
\* at (X + d, Y - output) with K = (X + d)*(Y - output).
C3_SwapFormula ==
  SwappedPositive(last) =>
    /\ last.exc = "none"
    /\ last.ret = FormulaOutput(last.pre, last.token, last.a1)
    /\ IF last.token = "DAI"
       THEN /\ pool.X = FAdd(last.pre.X, last.a1)
            /\ pool.Y = FSub(last.pre.Y, last.ret)
       ELSE /\ pool.Y = FAdd(last.pre.Y, last.a1)
            /\ pool.X = FSub(last.pre.X, last.ret)
    /\ pool.K = FMul(pool.X, pool.Y)

\* C4: on a pool with positive reserves, swapping d > 0 of one token in and
\* then the whole output back returns strictly less than d.
C4_RoundTripLoses ==
  (/\ SwappedPositive(prev) /\ prev.exc = "none" /\ PosPool(prev.pre)
   /\ last.op = "swap" /\ last.chained
   /\ {prev.token, last.token} = {"DAI", "ETH"})
    => last.exc = "none" /\ FLt(last.ret, prev.a1)

\* C5: optimal_profit raises the invalid-reserves error when a reserve is <= 0,
\* otherwise the no-arbitrage error when ay/ax = by/bx, and in both cases no
\* objective evaluation has happened.
C5_RejectsBeforeSearch ==
  /\ (pc # "L156" /\ ~AllPositive(args))
       => pc = "raised" /\ exc = "InvalidReserves" /\ evals = 0 /\ fun = NoObjective
  /\ (pc \notin {"L156", "L158"} /\ AllPositive(args)
        /\ FDiv(args.ay, args.ax) = FDiv(args.by, args.bx))
       => pc = "raised" /\ exc = "NoArbitrage" /\ evals = 0 /\ fun = NoObjective

C5_Witness ==
  pc = "raised" /\ exc = "NoArbitrage" /\ AllPositive(args) /\ args.ax # args.bx

\* C6: exchanging which snapshot is called A and which B leaves the objective
\* at every trial point, the search interval and the start point unchanged and
\* exchanges the buy and sell labels.
C6_LabelSymmetry ==
  /\ Derived =>
       /\ search = search_interval(args.bx, args.by, args.ax, args.ay)
       /\ direction(args.bx, args.by, args.ax, args.ay) = [b |-> labels.s, s |-> labels.b]
  /\ evals > 0 =>
       /\ simulate_arb(x, args.bx, args.by, args.ax, args.ay, FromInt(-1))
            = [fun EXCEPT !.route = <<fun.route[2], fun.route[1]>>]
       /\ simulate_arb(x, args.bx, args.by, args.ax, args.ay, One).ret
            = simulate_arb(x, args.ax, args.ay, args.bx, args.by, One).ret

C6_Witness ==
  /\ evals > 0 /\ fun.exc = "none" /\ fun.route = <<"B", "A">>
  /\ labels = [b |-> "B", s |-> "A"]
  /\ FPos(search.upper)

C9_EvaluationsNeverFail ==
  evals > 0 => fun.exc = "none" /\ pc # "raised"

\* C10: when optimal_profit reaches the optimizer call, lower <= upper and the
\* start point upper/2 lies in [lower, upper].
C10_IntervalWellFormed ==
  Derived =>
    /\ FLe(search.lower, search.upper)
    /\ FLe(search.lower, search.midpoint)
    /\ FLe(search.midpoint, search.upper)
====
